---------------------------- MODULE Spec2Model ----------------------------
(***************************************************************************)
(* A model of export_to_storage.py: the paginated fetch of a table over    *)
(* the backend's REST interface (fetch_all_rows), the CSV encoder          *)
(* (rows_to_csv_bytes), the storage upload (upload_to_storage) and the     *)
(* orchestration of the fixed target list (export_overwrite, main).        *)
(*                                                                         *)
(* Text (str, bytes) is modelled by TLA+ strings; a JSON row is an ordered *)
(* mapping, modelled by a sequence of <<key, value>> pairs with distinct   *)
(* keys (a Python dict keeps its insertion order).                         *)
(***************************************************************************)
EXTENDS Integers, Sequences, FiniteSets, TLC

VARIABLES
    pc,                 \* where the process is: import, main, loop, fetch, upload, done, failed
    now,                \* the wall-clock date in Asia/Seoul, <<year, month, day>>
    ticks,              \* how many times the wall-clock date has changed
    RUNDATE,            \* the module global of line 21
    overwrite_datasets, \* main's list of (table, out_path) pairs
    idx,                \* position of main's for loop in overwrite_datasets
    page_size,          \* fetch_all_rows' page_size parameter (2000 by default, scaled down here)
    rows,               \* fetch_all_rows' accumulator, then export_overwrite's rows
    offset,             \* fetch_all_rows' offset
    content,            \* the bytes rows_to_csv_bytes returned last
    db,                 \* backend: table name -> the rows of the table, in server order
    max_rows,           \* backend: the most rows it returns for one request
    storage,            \* bucket: object path -> object content
    storage0,           \* bucket as it was when the process started
    startDate,          \* the wall-clock date when the module was loaded
    reqs                \* every HTTP request issued so far, with its outcome

vars == <<pc, now, ticks, RUNDATE, overwrite_datasets, idx, page_size, rows, offset,
          content, db, max_rows, storage, storage0, startDate, reqs>>

---------------------------------------------------------------------------
(* Bounds of the model.                                                    *)

MaxRows == 2        \* a table holds 0..MaxRows rows
MaxPageSize == 2    \* page_size is drawn from 1..MaxPageSize
MaxTicks == 1       \* the wall-clock date changes at most MaxTicks times in a run
MaxCsvRows == 2     \* the encoder is applied to datasets of 0..MaxCsvRows records
MaxUploads == 3     \* the uploader is called at most MaxUploads times in SpecUpload

---------------------------------------------------------------------------
(* Text helpers.                                                           *)

Min(a, b) == IF a <= b THEN a ELSE b

At(s, i) == SubSeq(s, i, i)

RECURSIVE HasChar(_, _)
HasChar(s, c) ==
    IF s = "" THEN FALSE ELSE At(s, 1) = c \/ HasChar(SubSeq(s, 2, Len(s)), c)

IsDigit(c) == c \in {"0", "1", "2", "3", "4", "5", "6", "7", "8", "9"}

DigitVal(c) ==
    CASE c = "0" -> 0 [] c = "1" -> 1 [] c = "2" -> 2 [] c = "3" -> 3 [] c = "4" -> 4
      [] c = "5" -> 5 [] c = "6" -> 6 [] c = "7" -> 7 [] c = "8" -> 8 [] c = "9" -> 9

RECURSIVE AllDigits(_)
AllDigits(s) ==
    IF s = "" THEN TRUE ELSE IsDigit(At(s, 1)) /\ AllDigits(SubSeq(s, 2, Len(s)))

\* int() of a decimal string, as the backend reads the limit and offset parameters.
RECURSIVE ParseNat(_)
ParseNat(s) ==
    IF s = "" THEN 0
    ELSE 10 * ParseNat(SubSeq(s, 1, Len(s) - 1)) + DigitVal(At(s, Len(s)))

\* str() of a non-negative int.
str(n) == ToString(n)

RECURSIVE Zeros(_)
Zeros(k) == IF k <= 0 THEN "" ELSE "0" \o Zeros(k - 1)

\* A number in decimal, zero-padded on the left to width w (%Y, %m, %d).
ZeroPad(n, w) == Zeros(w - Len(str(n))) \o str(n)

---------------------------------------------------------------------------
(* Configuration read at module load (lines 8-21).                         *)

BUCKET == "open-data"
BASE_PATH == "datasets"

\* datetime.strftime("%Y%m%d")
strftime(date) == ZeroPad(date[1], 4) \o ZeroPad(date[2], 2) \o ZeroPad(date[3], 2)

\* The wall clock: the dates a run may start on, and the day after a date.
StartDates == {<<2024, 1, 15>>, <<2024, 12, 31>>}

IsLeap(y) == (y % 4 = 0 /\ y % 100 # 0) \/ y % 400 = 0

DaysIn(y, m) ==
    IF m = 2 THEN (IF IsLeap(y) THEN 29 ELSE 28)
    ELSE IF m \in {4, 6, 9, 11} THEN 30 ELSE 31

NextDay(date) ==
    IF date[3] < DaysIn(date[1], date[2]) THEN <<date[1], date[2], date[3] + 1>>
    ELSE IF date[2] < 12 THEN <<date[1], date[2] + 1, 1>>
    ELSE <<date[1] + 1, 1, 1>>

---------------------------------------------------------------------------
(* JSON rows.  A value is null, a number or a string; a row is a sequence  *)
(* of <<key, value>> pairs with distinct keys.                             *)

Null == [t |-> "null", n |-> 0, s |-> ""]
Num(k) == [t |-> "num", n |-> k, s |-> ""]
Str(x) == [t |-> "str", n |-> 0, s |-> x]

\* list(row.keys())
keys(row) == [i \in 1..Len(row) |-> row[i][1]]

HasKey(row, k) == \E i \in 1..Len(row) : row[i][1] = k

\* row.get(k, default)
get(row, k, default) ==
    IF HasKey(row, k)
    THEN row[CHOOSE i \in 1..Len(row) : row[i][1] = k][2]
    ELSE default

---------------------------------------------------------------------------
(* rows_to_csv_bytes (lines 47-55): csv.DictWriter over the keys of the    *)
(* first row, excel dialect (delimiter ",", quotechar '"', doublequote,    *)
(* QUOTE_MINIMAL, lineterminator "\r\n").                                  *)

LINETERMINATOR == "\r\n"

\* The csv writer's text of one field: None is written empty, a number by str().
FieldText(v) ==
    CASE v.t = "null" -> ""
      [] v.t = "num" -> str(v.n)
      [] v.t = "str" -> v.s

\* QUOTE_MINIMAL: a field is quoted when it holds the delimiter, the quote
\* character or a character of the line terminator.
NeedsQuote(s) ==
    HasChar(s, ",") \/ HasChar(s, "\"") \/ HasChar(s, "\r") \/ HasChar(s, "\n")

RECURSIVE DoubleQuotes(_)
DoubleQuotes(s) ==
    IF s = "" THEN ""
    ELSE (IF At(s, 1) = "\"" THEN "\"\"" ELSE At(s, 1)) \o DoubleQuotes(SubSeq(s, 2, Len(s)))

QuoteField(s) == IF NeedsQuote(s) THEN "\"" \o DoubleQuotes(s) \o "\"" ELSE s

RECURSIVE JoinFields(_)
JoinFields(fields) ==
    IF fields = <<>> THEN ""
    ELSE IF Len(fields) = 1 THEN QuoteField(fields[1])
    ELSE QuoteField(fields[1]) \o "," \o JoinFields(Tail(fields))

\* csv.writer.writerow on field texts: a record of one empty field is written
\* as "" in quotes, so that it is not an empty line.
writerow(fields) ==
    (IF Len(fields) = 1 /\ fields[1] = "" THEN "\"\"" ELSE JoinFields(fields))
        \o LINETERMINATOR

\* As extrasaction, left at the DictWriter's default.
extrasaction_default == "raise"

\* The extrasaction argument of the DictWriter (line 52).
extrasaction == "ignore"

\* DictWriter._dict_to_list: with extrasaction "raise" a key outside fieldnames
\* raises ValueError; a missing key yields restval, the empty string.
HasExtraKey(fieldnames, row) ==
    \E i \in 1..Len(row) : \A j \in 1..Len(fieldnames) : fieldnames[j] # row[i][1]

dict_to_list(fieldnames, row) ==
    [j \in 1..Len(fieldnames) |-> FieldText(get(row, fieldnames[j], Str("")))]

RECURSIVE writerows(_, _)
writerows(fieldnames, rs) ==
    IF rs = <<>> THEN [err |-> FALSE, out |-> ""]
    ELSE IF extrasaction = "raise" /\ HasExtraKey(fieldnames, rs[1])
    THEN [err |-> TRUE, out |-> ""]
    ELSE LET rest == writerows(fieldnames, Tail(rs))
         IN  [err |-> rest.err,
              out |-> writerow(dict_to_list(fieldnames, rs[1])) \o rest.out]

\* As rows_to_csv_bytes, without the guard for an empty list: rows[0] raises.
rows_to_csv_bytes_unguarded(rs) ==
    IF rs = <<>> THEN [err |-> TRUE, out |-> ""]
    ELSE LET fieldnames == keys(rs[1])
             body == writerows(fieldnames, rs)
         IN  [err |-> body.err,
              out |-> IF body.err THEN "" ELSE writerow(fieldnames) \o body.out]

\* rows_to_csv_bytes: [err |-> an exception was raised, out |-> the bytes returned].
rows_to_csv_bytes(rs) ==
    IF rs = <<>> THEN [err |-> FALSE, out |-> ""]
    ELSE LET fieldnames == keys(rs[1])
             body == writerows(fieldnames, rs)
         IN  [err |-> body.err,
              out |-> IF body.err THEN "" ELSE writerow(fieldnames) \o body.out]

---------------------------------------------------------------------------
(* The two HTTP services the script calls.                                 *)

\* The rows a table of the backend holds: row k of a table of R rows.
Row(table, k) == << <<"id", Num(k)>>, <<"src", Str(table)>> >>

TableRows(table, R) == [k \in 1..R |-> Row(table, k)]

\* GET /rest/v1/{table}?select=*&limit=N&offset=M, as requests.get receives it
\* (lines 34-36): a failed request carries no rows; a successful one carries the
\* rows [offset, offset + limit) of the table, at most cap of them.
RestPrefix == "/rest/v1/"

BackendGet(tables, url, params, cap, ok) ==
    LET table_rows == tables[SubSeq(url, Len(RestPrefix) + 1, Len(url))]
        off == ParseNat(params.offset)
        lim == Min(ParseNat(params.limit), cap)
        last == Min(off + lim, Len(table_rows))
    IN  [ok |-> ok, json |-> IF ok THEN SubSeq(table_rows, off + 1, last) ELSE <<>>]

\* POST /storage/v1/object/{bucket}/{path}, as requests.post receives it
\* (lines 61-62): the object is written when the request succeeds; without
\* x-upsert: true the service refuses to replace an object that exists.
ObjectPrefix == "/storage/v1/object/" \o BUCKET \o "/"

StoragePost(st, url, headers, data, ok) ==
    LET path == SubSeq(url, Len(ObjectPrefix) + 1, Len(url))
        accepted == ok /\ (headers.upsert = "true" \/ path \notin DOMAIN st)
    IN  [ok |-> accepted,
         storage |-> IF accepted
                     THEN [p \in DOMAIN st \cup {path} |-> IF p = path THEN data ELSE st[p]]
                     ELSE st]

\* r.raise_for_status(): TRUE when it raises.
raise_for_status(r) == ~r.ok

---------------------------------------------------------------------------
(* fetch_all_rows (lines 24-44).                                           *)

\* url, line 27
rest_url(table) == RestPrefix \o table

\* params, line 30
fetch_params(ps, off) == [select |-> "*", limit |-> str(ps), offset |-> str(off)]

\* As LoopEnds, taking a page shorter than the page size for the last one.
LoopEndsShort(batch, ps) == Len(batch) < ps

\* if not batch: break (lines 38-39)
LoopEnds(batch, ps) == batch = <<>>

\* rows.extend(batch) (line 41)
extend(rs, batch) == rs \o batch

\* As NextOffset, advancing by the number of rows received.
NextOffsetByBatch(off, ps, batch) == off + Len(batch)

\* offset += page_size (line 42)
NextOffset(off, ps, batch) == off + ps

---------------------------------------------------------------------------
(* upload_to_storage (lines 58-63).                                        *)

\* url, line 59
object_url(path_in_bucket) == ObjectPrefix \o path_in_bucket

\* As upload_headers, without the upsert header.
upload_headers_no_upsert == [ctype |-> "text/csv; charset=utf-8", upsert |-> "false"]

\* headers, line 60
upload_headers == [ctype |-> "text/csv; charset=utf-8", upsert |-> "true"]

upload_to_storage(st, path_in_bucket, data, ok) ==
    StoragePost(st, object_url(path_in_bucket), upload_headers, data, ok)

---------------------------------------------------------------------------
(* main (lines 82-93).                                                     *)

\* As TABLES, with the first two targets in the other order.
TABLES_swapped == <<"weekly_sales", "users", "hubs", "stations", "bikes", "rental_logs">>

TABLES == <<"users", "weekly_sales", "hubs", "stations", "bikes", "rental_logs">>

\* f"{BASE_PATH}/{table}_{RUNDATE}.csv" (lines 84-89)
OutPath(table, rundate) == BASE_PATH \o "/" \o table \o "_" \o rundate \o ".csv"

\* As TargetList, reading the clock when the list is built.
TargetListFresh == [i \in 1..Len(TABLES) |-> <<TABLES[i], OutPath(TABLES[i], strftime(now))>>]

\* overwrite_datasets (lines 83-90): every path is built from the global RUNDATE.
TargetList == [i \in 1..Len(TABLES) |-> <<TABLES[i], OutPath(TABLES[i], RUNDATE)>>]

\* One logged request: what was sent, for which target of the list (i), whether
\* the service was able to serve it (up), whether the response was a success
\* (ok) and how many rows it carried (n).
GetReq(i, table, params, up, r) ==
    [method |-> "GET", i |-> i, url |-> rest_url(table), limit |-> params.limit,
     offset |-> params.offset, upsert |-> "", body |-> "", up |-> up, ok |-> r.ok,
     n |-> Len(r.json)]

PostReq(i, path, data, up, r) ==
    [method |-> "POST", i |-> i, url |-> object_url(path), limit |-> "", offset |-> "",
     upsert |-> upload_headers.upsert, body |-> data, up |-> up, ok |-> r.ok, n |-> 0]

\* As Propagate, with main catching the exception and going on to the next target.
PropagateSkip == pc' = "loop" /\ idx' = idx + 1 /\ storage' = storage

\* As Propagate, with the failed call made again.
PropagateRetry == pc' = pc /\ idx' = idx /\ storage' = storage

\* As Propagate, with the bucket put back as the run found it.
PropagateRollback == pc' = "failed" /\ idx' = idx /\ storage' = storage0

\* An exception raised in export_overwrite is caught nowhere: it leaves main's
\* loop (lines 92-93) and ends the process, which touches the bucket no more.
Propagate == pc' = "failed" /\ idx' = idx /\ storage' = storage

\* Module load: lines 8-21.
Import ==
    /\ pc = "import"
    /\ RUNDATE' = strftime(now)
    /\ startDate' = now
    /\ pc' = "main"
    /\ UNCHANGED <<now, ticks, overwrite_datasets, idx, page_size, rows, offset, content,
                   db, max_rows, storage, storage0, reqs>>

\* main builds its list (lines 83-90) and enters the loop.
MainStart ==
    /\ pc = "main"
    /\ overwrite_datasets' = TargetList
    /\ idx' = 1
    /\ pc' = "loop"
    /\ UNCHANGED <<now, ticks, RUNDATE, page_size, rows, offset, content, db,
                   max_rows, storage, storage0, startDate, reqs>>

\* The loop takes the next target: export_overwrite (lines 75-77) calls
\* fetch_all_rows, which starts with no rows at offset 0 (lines 25-26).
ExportStart ==
    /\ pc = "loop"
    /\ idx <= Len(overwrite_datasets)
    /\ rows' = <<>>
    /\ offset' = 0
    /\ pc' = "fetch"
    /\ UNCHANGED <<now, ticks, RUNDATE, overwrite_datasets, idx, page_size, content, db,
                   max_rows, storage, storage0, startDate, reqs>>

\* One turn of the while loop of fetch_all_rows (lines 29-44).
FetchPage ==
    /\ pc = "fetch"
    /\ \E ok \in BOOLEAN :
        LET table == overwrite_datasets[idx][1]
            params == fetch_params(page_size, offset)
            r == BackendGet(db, rest_url(table), params, max_rows, ok)
        IN  /\ reqs' = Append(reqs, GetReq(idx, table, params, ok, r))
            /\ IF raise_for_status(r)
               THEN Propagate /\ UNCHANGED <<rows, offset>>
               ELSE IF LoopEnds(r.json, page_size)
               THEN pc' = "upload" /\ UNCHANGED <<rows, offset, idx, storage>>
               ELSE /\ rows' = extend(rows, r.json)
                    /\ offset' = NextOffset(offset, page_size, r.json)
                    /\ pc' = "fetch"
                    /\ UNCHANGED <<idx, storage>>
    /\ UNCHANGED <<now, ticks, RUNDATE, overwrite_datasets, page_size, content, db,
                   max_rows, storage0, startDate>>

\* export_overwrite encodes the rows and uploads them (line 78).
Upload ==
    /\ pc = "upload"
    /\ \E ok \in BOOLEAN :
        LET out_path == overwrite_datasets[idx][2]
            enc == rows_to_csv_bytes(rows)
            r == upload_to_storage(storage, out_path, enc.out, ok)
        IN  IF enc.err
            THEN Propagate /\ UNCHANGED <<content, reqs>>
            ELSE /\ content' = enc.out
                 /\ reqs' = Append(reqs, PostReq(idx, out_path, enc.out, ok, r))
                 /\ IF raise_for_status(r)
                    THEN Propagate
                    ELSE pc' = "loop" /\ idx' = idx + 1 /\ storage' = r.storage
    /\ UNCHANGED <<now, ticks, RUNDATE, overwrite_datasets, page_size, rows, offset,
                   db, max_rows, storage0, startDate>>

\* The list is exhausted: main returns and the process exits with status 0.
MainEnd ==
    /\ pc = "loop"
    /\ idx > Len(overwrite_datasets)
    /\ pc' = "done"
    /\ UNCHANGED <<now, ticks, RUNDATE, overwrite_datasets, idx, page_size, rows, offset,
                   content, db, max_rows, storage, storage0, startDate, reqs>>

\* Midnight passes in Asia/Seoul while the process runs.
Tick ==
    /\ pc \notin {"done", "failed"}
    /\ ticks < MaxTicks
    /\ now' = NextDay(now)
    /\ ticks' = ticks + 1
    /\ UNCHANGED <<pc, RUNDATE, overwrite_datasets, idx, page_size, rows, offset, content,
                   db, max_rows, storage, storage0, startDate, reqs>>

\* The bucket before the run: empty, or holding an older object at each of the
\* day's destination paths.
OldContent == "old"

InitialStorages(date) ==
    { [p \in {} |-> ""],
      [p \in {OutPath(TABLES[i], strftime(date)) : i \in 1..Len(TABLES)} |-> OldContent] }

\* The backend before the run: every table holds between 0 and MaxRows rows,
\* all tables the same number or each one row more than the one before it.
TableSizes ==
    { [i \in 1..Len(TABLES) |-> (r + c * (i - 1)) % (MaxRows + 1)] :
        r \in 0..MaxRows, c \in {0, 1} }

Databases ==
    { [t \in {TABLES[i] : i \in 1..Len(TABLES)} |->
          TableRows(t, sz[CHOOSE i \in 1..Len(TABLES) : TABLES[i] = t])] :
        sz \in TableSizes }

Init ==
    /\ pc = "import"
    /\ now \in StartDates
    /\ ticks = 0
    /\ RUNDATE = ""
    /\ overwrite_datasets = <<>>
    /\ idx = 0
    /\ page_size \in 1..MaxPageSize
    /\ rows = <<>>
    /\ offset = 0
    /\ content = ""
    /\ db \in Databases
    /\ max_rows \in {1, MaxPageSize}
    /\ storage \in InitialStorages(now)
    /\ storage0 = storage
    /\ startDate = now
    /\ reqs = <<>>

Next == Import \/ MainStart \/ ExportStart \/ FetchPage \/ Upload \/ MainEnd \/ Tick

Spec == Init /\ [][Next]_vars

---------------------------------------------------------------------------
(* The encoder on its own: rows_to_csv_bytes applied to a dataset drawn    *)
(* from records whose keys and values differ from row to row.              *)

CsvRecords ==
    { << <<"a", Num(1)>>, <<"b", Str("x")>>, <<"c", Null>> >>,
      << <<"a", Num(2)>>, <<"b", Str("p,q")>>, <<"c", Str("say \"hi\"")>> >>,
      << <<"a", Num(3)>>, <<"b", Str("y")>>, <<"c", Str("z")>>, <<"d", Str("extra")>> >>,
      << <<"a", Num(4)>>, <<"c", Str("w")>> >>,
      << <<"c", Str("u")>>, <<"a", Num(5)>>, <<"b", Null>> >>,
      << <<"a", Null>> >>,
      << <<"b", Str("l1\r\nl2")>> >>,
      << <<"k,1", Str("v")>>, <<"a", Num(6)>> >>,
      << >> }

RECURSIVE SeqsUpTo(_, _)
SeqsUpTo(S, n) ==
    IF n = 0 THEN {<<>>}
    ELSE LET shorter == SeqsUpTo(S, n - 1)
         IN  shorter \cup {Append(q, x) : q \in shorter, x \in S}

InitCsv ==
    /\ pc = "csv_call"
    /\ rows \in SeqsUpTo(CsvRecords, MaxCsvRows)
    /\ content = ""
    /\ now = <<2024, 1, 15>>
    /\ ticks = 0
    /\ RUNDATE = ""
    /\ overwrite_datasets = <<>>
    /\ idx = 0
    /\ page_size = 1
    /\ offset = 0
    /\ db = <<>>
    /\ max_rows = 1
    /\ storage = [p \in {} |-> ""]
    /\ storage0 = storage
    /\ startDate = now
    /\ reqs = <<>>

\* A call of rows_to_csv_bytes(rows): it returns the bytes, or it raises.
EncodeCall ==
    /\ pc = "csv_call"
    /\ LET enc == rows_to_csv_bytes(rows)
       IN  /\ content' = enc.out
           /\ pc' = IF enc.err THEN "csv_raised" ELSE "csv_returned"
    /\ UNCHANGED <<now, ticks, RUNDATE, overwrite_datasets, idx, page_size, rows, offset,
                   db, max_rows, storage, storage0, startDate, reqs>>

NextCsv == EncodeCall

SpecCsv == InitCsv /\ [][NextCsv]_vars

---------------------------------------------------------------------------
(* The uploader on its own: calls of upload_to_storage with paths and      *)
(* contents of the caller's choice, on a bucket that starts empty.         *)

UploadPaths == {"datasets/a.csv", "datasets/b.csv"}

UploadContents == {"", "v1", "v2"}

InitUpload ==
    /\ pc = "upload_call"
    /\ storage = [p \in {} |-> ""]
    /\ storage0 = storage
    /\ reqs = <<>>
    /\ content = ""
    /\ rows = <<>>
    /\ now = <<2024, 1, 15>>
    /\ ticks = 0
    /\ RUNDATE = ""
    /\ overwrite_datasets = <<>>
    /\ idx = 0
    /\ page_size = 1
    /\ offset = 0
    /\ db = <<>>
    /\ max_rows = 1
    /\ startDate = now

\* One call of upload_to_storage(path, data); ok is whether the storage service
\* is able to serve it.
UploadCall ==
    /\ pc = "upload_call"
    /\ Len(reqs) < MaxUploads
    /\ \E path \in UploadPaths, data \in UploadContents, ok \in BOOLEAN :
        LET r == upload_to_storage(storage, path, data, ok)
        IN  /\ reqs' = Append(reqs, PostReq(0, path, data, ok, r))
            /\ storage' = r.storage
            /\ content' = data
    /\ UNCHANGED <<pc, now, ticks, RUNDATE, overwrite_datasets, idx, page_size, rows, offset,
                   db, max_rows, storage0, startDate>>

NextUpload == UploadCall

SpecUpload == InitUpload /\ [][NextUpload]_vars

---------------------------------------------------------------------------
(* What the request log says.                                              *)

IsGet(q) == q.method = "GET"
IsPost(q) == q.method = "POST"

\* The GET requests issued for target i, in the order issued.
GetsOf(i) == SelectSeq(reqs, LAMBDA q : IsGet(q) /\ q.i = i)

\* The POST requests issued for target i.
PostsOf(i) == SelectSeq(reqs, LAMBDA q : IsPost(q) /\ q.i = i)

\* The object path a POST request was sent to.
PathOf(q) == SubSeq(q.url, Len(ObjectPrefix) + 1, Len(q.url))

CeilDiv(a, b) == (a + b - 1) \div b

---------------------------------------------------------------------------
(* C1: Pagination completeness.  When fetch_all_rows returns for a table   *)
(* of R rows, on a backend that serves the rows [offset, offset + limit)   *)
(* of the table, it has issued exactly ceil(R / P) + 1 requests, all       *)
(* successful, the last of which returned an empty page, and it returns    *)
(* exactly the table's R rows in server order.                             *)
C1_PaginationComplete ==
    (pc = "upload" /\ max_rows >= page_size) =>
        LET table == overwrite_datasets[idx][1]
            R == Len(db[table])
            gets == GetsOf(idx)
        IN  /\ rows = db[table]
            /\ Len(rows) = R
            /\ Len(gets) = CeilDiv(R, page_size) + 1
            /\ \A k \in 1..Len(gets) : gets[k].ok
            /\ gets[Len(gets)].n = 0
            /\ \A k \in 1..(Len(gets) - 1) : gets[k].n > 0

\* A fetch has returned a table whose last page was partial, after an earlier
\* target was exported.
C1_Witness ==
    /\ pc = "upload"
    /\ max_rows >= page_size
    /\ idx > 1
    /\ Len(rows) >= 1
    /\ Len(rows) % page_size # 0
    /\ rows = db[overwrite_datasets[idx][1]]

(* C10: Offset progression.  The k-th request of one fetch carries limit P *)
(* and offset (k - 1) * P; a further request follows a response exactly    *)
(* when that response was a non-empty success, whatever its size; the      *)
(* first empty response ends the fetch.                                    *)
C10_OffsetProgression ==
    \A i \in 1..Len(overwrite_datasets) :
        LET gets == GetsOf(i)
            fetching == pc = "fetch" /\ idx = i
        IN  /\ \A k \in 1..Len(gets) :
                /\ AllDigits(gets[k].limit) /\ ParseNat(gets[k].limit) = page_size
                /\ AllDigits(gets[k].offset)
                /\ ParseNat(gets[k].offset) = (k - 1) * page_size
                /\ k < Len(gets) => (gets[k].ok /\ gets[k].n > 0)
                /\ (k = Len(gets) /\ gets[k].ok /\ gets[k].n > 0) => fetching
                /\ (gets[k].ok /\ gets[k].n = 0) => (k = Len(gets) /\ ~fetching)
            /\ fetching => offset = Len(gets) * page_size

\* A non-empty page shorter than the page size was followed by a further request.
C10_Witness ==
    \E i \in 1..Len(overwrite_datasets) :
        \E k \in 1..(Len(GetsOf(i)) - 1) :
            /\ GetsOf(i)[k].n > 0
            /\ GetsOf(i)[k].n < page_size
            /\ ParseNat(GetsOf(i)[k + 1].offset) = k * page_size

(* C2: Fail-fast ordering.  A request that returns a non-success status is *)
(* the last request of the run: no fetch and no upload of that target or   *)
(* of a later one follows it, and the run is in the failed state, never in *)
(* the completed one.                                                      *)
C2_FailFast ==
    \A k \in 1..Len(reqs) :
        ~reqs[k].ok =>
            /\ k = Len(reqs)
            /\ pc = "failed"
            /\ idx = reqs[k].i
            /\ \A j \in 1..Len(reqs) : reqs[j].i <= reqs[k].i

\* The fetch of the second target failed after the first target was uploaded.
C2_Witness ==
    /\ pc = "failed"
    /\ Len(reqs) > 1
    /\ IsGet(reqs[Len(reqs)])
    /\ ~reqs[Len(reqs)].ok
    /\ reqs[Len(reqs)].i = 2
    /\ \E k \in 1..Len(reqs) : IsPost(reqs[k]) /\ reqs[k].ok /\ reqs[k].i = 1

(* C3: No rollback.  When the run has failed, every object uploaded        *)
(* successfully earlier in the run is in the bucket with the content that  *)
(* was uploaded for it.                                                    *)
C3_NoRollback ==
    pc = "failed" =>
        \A k \in 1..Len(reqs) :
            (IsPost(reqs[k]) /\ reqs[k].ok) =>
                /\ reqs[k].i < idx
                /\ PathOf(reqs[k]) \in DOMAIN storage
                /\ storage[PathOf(reqs[k])] = reqs[k].body

\* The run failed on its third target or later, after uploads that replaced
\* older objects with non-empty content.
C3_Witness ==
    /\ pc = "failed"
    /\ idx >= 3
    /\ \E k \in 1..Len(reqs) :
        /\ IsPost(reqs[k]) /\ reqs[k].ok /\ reqs[k].body # ""
        /\ PathOf(reqs[k]) \in DOMAIN storage0

(* C4: A failed page request ends the fetch.  The failed request is the    *)
(* last request of the run (it is not issued again and no further page is  *)
(* requested), the fetch does not return (the run is in the failed state), *)
(* no upload is issued for that table, and the object at that target's     *)
(* destination path is what it was before the run.                         *)
C4_FetchFailure ==
    \A k \in 1..Len(reqs) :
        (IsGet(reqs[k]) /\ ~reqs[k].ok) =>
            LET i == reqs[k].i
                path == overwrite_datasets[i][2]
            IN  /\ k = Len(reqs)
                /\ Len(SelectSeq(reqs, LAMBDA q : ~q.ok)) = 1
                /\ pc = "failed"
                /\ PostsOf(i) = <<>>
                /\ (path \in DOMAIN storage) = (path \in DOMAIN storage0)
                /\ path \in DOMAIN storage => storage[path] = storage0[path]

\* A page request failed after a successful non-empty page, for a target whose
\* destination path held an object before the run.
C4_Witness ==
    /\ pc = "failed"
    /\ Len(reqs) > 1
    /\ IsGet(reqs[Len(reqs)])
    /\ ~reqs[Len(reqs)].ok
    /\ ParseNat(reqs[Len(reqs)].offset) > 0
    /\ Len(rows) > 0
    /\ overwrite_datasets[idx][2] \in DOMAIN storage0

\* The target list as the specification of the export gives it.
C5_ListOrder == <<"users", "weekly_sales", "hubs", "stations", "bikes", "rental_logs">>

(* C5: Orchestration order.  The requests of a run go through the list     *)
(* users, weekly_sales, hubs, stations, bikes, rental_logs in order: a     *)
(* fetch request is followed by a request of the same target, an upload by *)
(* the first fetch request of the next target; a target has at most one    *)
(* upload.  A run that completes has issued exactly one upload per target, *)
(* six in total, all successful.                                           *)
C5_OrchestrationOrder ==
    /\ \A k \in 1..Len(reqs) :
        /\ reqs[k].i \in 1..Len(C5_ListOrder)
        /\ IsGet(reqs[k]) => reqs[k].url = "/rest/v1/" \o C5_ListOrder[reqs[k].i]
        /\ IsPost(reqs[k]) =>
              LET stem == "datasets/" \o C5_ListOrder[reqs[k].i] \o "_"
              IN  SubSeq(PathOf(reqs[k]), 1, Len(stem)) = stem
        /\ k = 1 => (IsGet(reqs[k]) /\ reqs[k].i = 1)
        /\ k < Len(reqs) =>
              IF IsGet(reqs[k])
              THEN reqs[k + 1].i = reqs[k].i
              ELSE IsGet(reqs[k + 1]) /\ reqs[k + 1].i = reqs[k].i + 1
    /\ \A i \in 1..Len(C5_ListOrder) : Len(PostsOf(i)) <= 1
    /\ pc = "done" =>
        /\ Len(SelectSeq(reqs, IsPost)) = 6
        /\ \A i \in 1..6 : Len(PostsOf(i)) = 1 /\ PostsOf(i)[1].ok /\ Len(GetsOf(i)) >= 1
        /\ \A k \in 1..Len(reqs) : reqs[k].ok

\* A run completed, having fetched more than one page for some target.
C5_Witness ==
    /\ pc = "done"
    /\ \E i \in 1..6 : Len(GetsOf(i)) > 2

---------------------------------------------------------------------------
(* A reader of CSV text (excel dialect): the records of the text, each the *)
(* sequence of its cells.  A quoted cell may hold the delimiter, a doubled *)
(* quote and line breaks; an empty line is a record of no cells.           *)

RECURSIVE CsvScan(_, _, _, _, _, _, _)
CsvScan(text, i, inq, quoted, cell, line, lines) ==
    IF i > Len(text)
    THEN IF line = <<>> /\ cell = "" /\ ~quoted THEN lines
         ELSE Append(lines, Append(line, cell))
    ELSE LET c == At(text, i)
             more == i < Len(text)
         IN  IF inq
             THEN IF c = "\"" /\ more /\ At(text, i + 1) = "\""
                  THEN CsvScan(text, i + 2, TRUE, TRUE, cell \o "\"", line, lines)
                  ELSE IF c = "\""
                  THEN CsvScan(text, i + 1, FALSE, TRUE, cell, line, lines)
                  ELSE CsvScan(text, i + 1, TRUE, TRUE, cell \o c, line, lines)
             ELSE IF c = "\""
             THEN CsvScan(text, i + 1, TRUE, TRUE, cell, line, lines)
             ELSE IF c = ","
             THEN CsvScan(text, i + 1, FALSE, FALSE, "", Append(line, cell), lines)
             ELSE IF c = "\r" /\ more /\ At(text, i + 1) = "\n"
             THEN LET rec == IF line = <<>> /\ cell = "" /\ ~quoted
                             THEN <<>> ELSE Append(line, cell)
                  IN  CsvScan(text, i + 2, FALSE, FALSE, "", <<>>, Append(lines, rec))
             ELSE CsvScan(text, i + 1, FALSE, quoted, cell \o c, line, lines)

CsvRead(text) == CsvScan(text, 1, FALSE, FALSE, "", <<>>, <<>>)

\* What a cell of a CSV shows of a JSON value.
CellOf(v) ==
    CASE v.t = "null" -> ""
      [] v.t = "num" -> ToString(v.n)
      [] v.t = "str" -> v.s

(* C6: Header stability.  Encoding a non-empty dataset never raises; read  *)
(* back, the output is a header record that is exactly the keys of record  *)
(* 0 in record 0's key order, then one record per row in dataset order,    *)
(* whose cell in the column of key k is the row's value under k, or empty  *)
(* when the row lacks k; a value under a key outside record 0 appears      *)
(* nowhere.                                                                *)
C6_HeaderStability ==
    /\ pc # "csv_raised"
    /\ (pc = "csv_returned" /\ rows # <<>>) =>
        LET recs == CsvRead(content)
            header == keys(rows[1])
        IN  /\ Len(recs) = 1 + Len(rows)
            /\ Len(recs[1]) = Len(header)
            /\ \A j \in 1..Len(header) : recs[1][j] = rows[1][j][1]
            /\ \A i \in 1..Len(rows) :
                /\ Len(recs[i + 1]) = Len(header)
                /\ \A j \in 1..Len(header) :
                    recs[i + 1][j] =
                        IF \E m \in 1..Len(rows[i]) : rows[i][m][1] = header[j]
                        THEN CellOf(rows[i][CHOOSE m \in 1..Len(rows[i]) :
                                                rows[i][m][1] = header[j]][2])
                        ELSE ""

\* A dataset was encoded whose second row has a key that the first row lacks
\* and lacks a key that the first row has.
C6_Witness ==
    /\ pc = "csv_returned"
    /\ Len(rows) >= 2
    /\ \E m \in 1..Len(rows[2]) :
          \A j \in 1..Len(rows[1]) : rows[1][j][1] # rows[2][m][1]
    /\ \E j \in 1..Len(rows[1]) :
          \A m \in 1..Len(rows[2]) : rows[1][j][1] # rows[2][m][1]

(* C7: Empty dataset.  When the first page of a table comes back empty,    *)
(* the export of that table goes on to the upload: the next request is the *)
(* upload to that target's destination path, and its body has length zero  *)
(* (no header line).                                                       *)
C7_EmptyDataset ==
    \A k \in 1..Len(reqs) :
        (IsGet(reqs[k]) /\ reqs[k].ok /\ reqs[k].n = 0 /\ ParseNat(reqs[k].offset) = 0) =>
            IF k < Len(reqs)
            THEN /\ IsPost(reqs[k + 1])
                 /\ reqs[k + 1].i = reqs[k].i
                 /\ PathOf(reqs[k + 1]) = overwrite_datasets[reqs[k].i][2]
                 /\ Len(reqs[k + 1].body) = 0
            ELSE pc = "upload" /\ idx = reqs[k].i /\ rows = <<>>

\* The upload of an empty table succeeded with an empty body and the run went on.
C7_Witness ==
    \E k \in 2..Len(reqs) :
        /\ IsPost(reqs[k]) /\ reqs[k].ok /\ reqs[k].body = ""
        /\ IsGet(reqs[k - 1]) /\ reqs[k - 1].n = 0 /\ reqs[k - 1].offset = "0"
        /\ PathOf(reqs[k]) \in DOMAIN storage /\ storage[PathOf(reqs[k])] = ""
        /\ k < Len(reqs)

(* C8: Overwrite idempotence.  Every upload carries x-upsert: true and     *)
(* succeeds whenever the storage service serves it, whether or not an      *)
(* object exists at the path; the object at a path is the content of the   *)
(* last successful upload to it (an earlier content is gone), and a path   *)
(* never uploaded to holds nothing.                                        *)
C8_OverwriteIdempotence ==
    /\ \A k \in 1..Len(reqs) :
        IsPost(reqs[k]) => (reqs[k].upsert = "true" /\ reqs[k].ok = reqs[k].up)
    /\ \A path \in UploadPaths :
        LET done == {k \in 1..Len(reqs) :
                        IsPost(reqs[k]) /\ reqs[k].ok /\ PathOf(reqs[k]) = path}
        IN  IF done = {}
            THEN path \notin DOMAIN storage
            ELSE /\ path \in DOMAIN storage
                 /\ storage[path] = reqs[CHOOSE k \in done : \A j \in done : j <= k].body

\* One path was uploaded to twice with different contents, both successfully,
\* and then once more with the second content.
C8_Witness ==
    \E j, k, l \in 1..Len(reqs) :
        /\ j < k /\ k < l
        /\ reqs[j].ok /\ reqs[k].ok /\ reqs[l].ok
        /\ reqs[j].url = reqs[k].url /\ reqs[k].url = reqs[l].url
        /\ reqs[j].body # reqs[k].body
        /\ reqs[k].body = reqs[l].body
        /\ storage[PathOf(reqs[k])] = reqs[k].body

\* What stands between "datasets/<table>_" and ".csv" in a destination key.
C9_StampOf(path, table) ==
    SubSeq(path, Len("datasets/" \o table \o "_") + 1, Len(path) - Len(".csv"))

(* C9: Path naming with one date stamp per run.  Once main has built its   *)
(* list, the destination key of target i is BASE_PATH, "/", the i-th table *)
(* name, "_", eight digits and ".csv"; the eight digits are the year,      *)
(* month and day of the date on which the module was loaded, the same in   *)
(* all six keys whatever the wall clock shows later; the six keys are      *)
(* pairwise distinct, and every upload goes to its target's key.           *)
C9_PathNaming ==
    pc \notin {"import", "main"} =>
        /\ Len(overwrite_datasets) = 6
        /\ \A i \in 1..Len(overwrite_datasets) :
            LET table == overwrite_datasets[i][1]
                path == overwrite_datasets[i][2]
                stamp == C9_StampOf(path, table)
            IN  /\ table = C5_ListOrder[i]
                /\ path = "datasets/" \o table \o "_" \o stamp \o ".csv"
                /\ Len(stamp) = 8
                /\ AllDigits(stamp)
                /\ ParseNat(SubSeq(stamp, 1, 4)) = startDate[1]
                /\ ParseNat(SubSeq(stamp, 5, 6)) = startDate[2]
                /\ ParseNat(SubSeq(stamp, 7, 8)) = startDate[3]
                /\ stamp = RUNDATE
        /\ \A i, j \in 1..Len(overwrite_datasets) :
            i # j => overwrite_datasets[i][2] # overwrite_datasets[j][2]
        /\ \A k \in 1..Len(reqs) :
            IsPost(reqs[k]) => PathOf(reqs[k]) = overwrite_datasets[reqs[k].i][2]

\* A run completed whose wall-clock date changed after the module was loaded.
C9_Witness ==
    /\ pc = "done"
    /\ ticks > 0
    /\ now # startDate
    /\ \E k \in 1..Len(reqs) : IsPost(reqs[k]) /\ reqs[k].i = 6 /\ reqs[k].ok

=============================================================================
